---------------------------- MODULE Spec2Model ----------------------------
(***************************************************************************)
(* password-display: a short secret (at most 32 bytes) is rendered as a    *)
(* version-2, level-L QR code.  The model follows src/src/main.rs and      *)
(* src/src/qr_code.rs: every function of the pipeline is an operator        *)
(* computed the way the code computes it, and every call of main is an     *)
(* action.                                                                 *)
(***************************************************************************)
EXTENDS Integers, Sequences, FiniteSets

VARIABLES
    pc,            \* position of main (which call comes next)
    bits,          \* main.rs: bits, the bytes read from the password file
    encoded_bits,  \* main.rs: encoded_bits, the base-45 symbols
    data_bits,     \* main.rs: data_bits, the 272 framed bits
    data_ecc,      \* main.rs: data_ecc, the 352 bits with error correction
    matrix,        \* main.rs: matrix, a Matrix {data, mask}
    written,       \* fill_data: the cells it wrote, in order (history)
    all_masks,     \* mask_and_place_format_string: the 8 masked copies
    lowest_score,  \* mask_and_place_format_string: (index, score)
    n,             \* mask_and_place_format_string: the loop counter
    qr_final,      \* main.rs: qr_final, the 33 x 33 grid export returns
    png_image,     \* main.rs: png, the bytes form_png returns
    crc_data,      \* lib.rs: the argument data of calculate_crc
    crc,           \* lib.rs: the u32 calculate_crc returns, <<hi, lo>>
    score          \* qr_code.rs: score of evaluate, as far as it has run

\* the variables of the PNG stage and of evaluate on its own
png_vars == <<qr_final, png_image, crc_data, crc, score>>

vars == <<pc, bits, encoded_bits, data_bits, data_ecc, matrix, written,
          all_masks, lowest_score, n, qr_final, png_image, crc_data, crc,
          score>>

---------------------------------------------------------------------------
(* Program constants                                                       *)

\* main.rs:24,29  at most 32 bytes of the file are processed
MaxPasswordBytes == 32
\* main.rs:45  the base handed to encode_bits
Base45 == 45
\* qr_code.rs:69  the framed buffer holds 34 * 8 bits
DataLen == 272
\* qr_code.rs:181  the buffer with error correction holds 44 * 8 bits
EccLen == 352
\* qr_code.rs:5  the matrix is 25 x 25 modules, indices 0..24
Size == 25
\* qr_code.rs:528  usize::MAX, the initial lowest score; the model's integers
\* are 32-bit, and no score comes near either value
UsizeMax == 2147483647

(* Bounds of the model                                                     *)

\* inputs of the encoder start with up to this many zero bytes
MaxLeadZeros == 2

---------------------------------------------------------------------------
(* Fixed-width integer helpers                                             *)

\* 1 << k, for k in 0..16
PowersOfTwo ==
    <<1, 2, 4, 8, 16, 32, 64, 128, 256, 512, 1024, 2048, 4096, 8192, 16384,
      32768, 65536>>

Shl1(k) == PowersOfTwo[k + 1]

\* bit k of x (x & (1 << k) != 0)
Bit(x, k) == (x \div Shl1(k)) % 2

\* x ^ y on naturals
RECURSIVE Xor(_, _)
Xor(x, y) ==
    IF x = 0 THEN y
    ELSE IF y = 0 THEN x
    ELSE ((x + y) % 2) + 2 * Xor(x \div 2, y \div 2)

\* a sequence of k copies of v
Repeat(v, k) == [i \in 1..k |-> v]

---------------------------------------------------------------------------
(* qr_code.rs: divmod and encode_bits                                      *)

\* divmod's loop body for the bytes number[i..]: temp is the u16 remainder,
\* result the quotient built so far
RECURSIVE DivmodLoop(_, _, _, _, _)
DivmodLoop(number, base, i, temp, result) ==
    IF i > Len(number) THEN <<result, temp % 256>>
    ELSE LET t        == (((temp * 256) % 65536) + number[i]) % 65536
             quotient == t \div base
             rem      == t % base
         IN  IF quotient = 0 /\ result = <<>>
             THEN DivmodLoop(number, base, i + 1, rem, result)
             ELSE DivmodLoop(number, base, i + 1, rem,
                             Append(result, quotient % 256))

\* divmod(number, base) -> (quotient, remainder)
divmod(number, base) == DivmodLoop(number, base, 1, 0, <<>>)

\* EncodeLoop with each remainder pushed at the back instead of inserted at 0
RECURSIVE EncodeLoopAppending(_, _, _)
EncodeLoopAppending(b, base, encoded) ==
    IF b = <<>> THEN encoded
    ELSE LET dm == divmod(b, base)
         IN  EncodeLoopAppending(dm[1], base, Append(encoded, dm[2]))

\* the first while loop of encode_bits: divmod until the input is empty
RECURSIVE EncodeLoop(_, _, _)
EncodeLoop(b, base, encoded) ==
    IF b = <<>> THEN encoded
    ELSE LET dm == divmod(b, base)
         IN  EncodeLoop(dm[1], base, <<dm[2]>> \o encoded)

\* PadFront without its loop: nothing is inserted
PadFrontSkipped(encoded, expected_length) == encoded

\* the second while loop of encode_bits: pad at the front
PadFront(encoded, expected_length) ==
    IF Len(encoded) < expected_length
    THEN Repeat(0, expected_length - Len(encoded)) \o encoded
    ELSE encoded

\* encode_bits(bits, base)
encode_bits(b, base) ==
    LET input_length    == Len(b)
        encoded         == EncodeLoop(b, base, <<>>)
        temp            == input_length * 8 * 2
        expected_length == (temp + 10) \div 11
    IN  PadFront(encoded, expected_length)

---------------------------------------------------------------------------
(* qr_code.rs: encapsulate_data.  The buffer is a function on 0..271, as   *)
(* the array of the code; encoded_bits is a sequence (a Vec).              *)

\* let mut data = [0; 34 * 8];
ZeroBuffer(len) == [i \in 0..(len - 1) |-> 0]

\* what is left of an array when an index ran out of its range (the program
\* panics): no index is in its domain, so every later write keeps it
Panicked == [i \in {-1} |-> -1]

\* the length indicator loop: for n in 0..no_of_bits, from iteration k on
RECURSIVE WriteLength(_, _, _)
WriteLength(data, character_count, k) ==
    IF k = 9 THEN data
    ELSE LET insert_bit == character_count % 2
         IN  WriteLength([data EXCEPT ![3 + 9 - k] = insert_bit],
                         character_count \div 2, k + 1)

\* PairValue with the two symbols in the other order
PairValueSwapped(a, b) == a + b * 45

\* temp = temp_vec[0] as u16 * 45 + temp_vec[1] as u16
PairValue(a, b) == a * 45 + b

\* "for _n in 0..count": write the bit of temp under test_mask at index, shift
\* temp left (within width), advance index; from iteration k on
RECURSIVE WriteBitsAdvancing(_, _, _, _, _, _, _)
WriteBitsAdvancing(data, index, temp, test_bit, width, count, k) ==
    IF k = count THEN data
    ELSE IF index \notin DOMAIN data THEN Panicked
    ELSE WriteBitsAdvancing(
             [data EXCEPT ![index] = Bit(temp, test_bit)],
             index + 1, (temp * 2) % width, test_bit, width, count, k + 1)

\* the loop of the second pad byte: the same, but index is never advanced
RECURSIVE WriteBitsInPlace(_, _, _, _, _, _, _)
WriteBitsInPlace(data, index, temp, test_bit, width, count, k) ==
    IF k = count THEN data
    ELSE IF index \notin DOMAIN data THEN Panicked
    ELSE WriteBitsInPlace(
             [data EXCEPT ![index] = Bit(temp, test_bit)],
             index, (temp * 2) % width, test_bit, width, count, k + 1)

\* while encoded_bits.len() > 1: drain a pair, write its 11 bits; then the
\* single character left over, in 6 bits.  Returns <<data, index>>.
RECURSIVE WriteCharacters(_, _, _)
WriteCharacters(data, index, eb) ==
    IF data = Panicked THEN <<Panicked, index>>
    ELSE IF Len(eb) > 1
    THEN LET temp == PairValue(eb[1], eb[2])
         IN  WriteCharacters(
                 WriteBitsAdvancing(data, index, temp, 10, 65536, 11, 0),
                 index + 11, SubSeq(eb, 3, Len(eb)))
    ELSE IF eb # <<>>
         THEN <<WriteBitsAdvancing(data, index, eb[1], 5, 256, 6, 0),
                index + 6>>
         ELSE <<data, index>>

\* the terminator: for _n in 0..4 { if index == data.len() { break }; index += 1 }
RECURSIVE Terminator(_, _, _)
Terminator(index, len, k) ==
    IF k = 4 \/ index = len THEN index ELSE Terminator(index + 1, len, k + 1)

\* while index % 8 != 0 { index += 1 }
RECURSIVE PadToByte(_)
PadToByte(index) == IF index % 8 # 0 THEN PadToByte(index + 1) ELSE index

\* the body of the second pad byte (temp = 17) of the padding loop
SecondPadByte(data, index) == WriteBitsInPlace(data, index, 17, 7, 256, 8, 0)

\* the padding loop: loop { break at the end; 236; break at the end; 17 }
RECURSIVE PadLoop(_, _, _)
PadLoop(data, index, len) ==
    IF index = len \/ data = Panicked THEN data
    ELSE LET d1 == WriteBitsAdvancing(data, index, 236, 7, 256, 8, 0)
             i1 == index + 8
         IN  IF i1 = len THEN d1
             ELSE PadLoop(SecondPadByte(d1, i1), i1, len)

\* where the padding starts for a message of L characters
PadStart(L) ==
    PadToByte(Terminator(13 + 11 * (L \div 2) + 6 * (L % 2), DataLen, 0))

\* encapsulate_data(encoded_bits)
encapsulate_data(eb) ==
    LET d0 == [ZeroBuffer(DataLen) EXCEPT ![2] = 1]
        d1 == WriteLength(d0, Len(eb) % 256, 0)
        w  == WriteCharacters(d1, 4 + 9, eb)
        i3 == PadToByte(Terminator(w[2], DataLen, 0))
    IN  PadLoop(w[1], i3, DataLen)

---------------------------------------------------------------------------
(* qr_code.rs: gf_multiply and apply_ecc                                   *)

\* let gen_poly: [u8; 11] = [1, 216, 194, 159, 111, 199, 94, 95, 113, 157, 193];
gen_poly ==
    [i \in 0..10 |->
        <<1, 216, 194, 159, 111, 199, 94, 95, 113, 157, 193>>[i + 1]]

\* the constants gf_multiply substitutes for the bits 8..15 of a product
ReductionConstants == <<29, 58, 116, 232, 205, 135, 19, 38>>

\* while mask < 255 { temp = ((factor_2 & mask) * factor_1) ^ temp; mask <<= 1 }
\* with mask = 2^k
RECURSIVE MultiplyLoop(_, _, _, _)
MultiplyLoop(factor_1, factor_2, k, temp) ==
    IF Shl1(k) >= 255 THEN temp
    ELSE MultiplyLoop(factor_1, factor_2, k + 1,
             Xor(((Bit(factor_2, k) * Shl1(k)) * factor_1) % 65536, temp))

\* the eight "if temp & mask == mask { temp = temp ^ c }; mask <<= 1" steps,
\* from step j on (mask = 2^(8+j))
RECURSIVE ReduceLoop(_, _)
ReduceLoop(temp, j) ==
    IF j = 8 THEN temp
    ELSE ReduceLoop(IF Bit(temp, 8 + j) = 1
                    THEN Xor(temp, ReductionConstants[j + 1])
                    ELSE temp,
                    j + 1)

\* MultiplyCoefficient without the reduction of the bits 8..15
MultiplyCoefficientUnreduced(factor_1, factor_2) ==
    MultiplyLoop(factor_1, factor_2, 0, 0) % 256

\* one coefficient of gf_multiply: result[n] for gen_poly[n] = factor_1
MultiplyCoefficient(factor_1, factor_2) ==
    ReduceLoop(MultiplyLoop(factor_1, factor_2, 0, 0), 0) % 256

\* gf_multiply(gen_poly, factor)
gf_multiply(gp, factor) ==
    [i \in 0..10 |-> MultiplyCoefficient(gp[i], factor)]

\* message[n] = data[index] * 128 + ... + data[index + 7], in u8
PackByte(data, index) ==
    (128 * data[index] + 64 * data[index + 1] + 32 * data[index + 2]
     + 16 * data[index + 3] + 8 * data[index + 4] + 4 * data[index + 5]
     + 2 * data[index + 6] + data[index + 7]) % 256

\* let mut message: [u8; 44], its first 34 bytes packed from the data bits
PackMessage(data) ==
    [i \in 0..43 |-> IF i < 34 THEN PackByte(data, 8 * i) ELSE 0]

\* the end of one round of the division: subtract temp and shift, then load
\* the next byte of the message
SubtractAndShift(remainder, temp, message, k) ==
    [m \in 0..10 |->
        IF m < 10 THEN Xor(remainder[m + 1], temp[m + 1])
        ELSE IF k # 33 THEN message[k + 11]
        ELSE remainder[10]]

\* one round of the division: temp = gf_multiply(gen_poly, remainder[0]), ...
DivisionRound(remainder, message, k) ==
    SubtractAndShift(remainder, gf_multiply(gen_poly, remainder[0]),
                     message, k)

\* for n in 0..34, from round k on
RECURSIVE DivisionLoop(_, _, _)
DivisionLoop(remainder, message, k) ==
    IF k = 34 \/ remainder = Panicked THEN remainder
    ELSE DivisionLoop(DivisionRound(remainder, message, k), message, k + 1)

\* the end of apply_ecc: copy the data, append the bits of remainder[0..9]
AppendRemainder(data, remainder) ==
    [i \in 0..(EccLen - 1) |->
        IF i < 34 * 8 THEN data[i]
        ELSE Bit(remainder[(i - 34 * 8) \div 8], 7 - (i % 8))]

\* the division of apply_ecc: the remainder of the message
Divide(message) ==
    DivisionLoop([m \in 0..10 |-> message[m]], message, 0)

\* apply_ecc(data)
apply_ecc(data) == AppendRemainder(data, Divide(PackMessage(data)))

---------------------------------------------------------------------------
(* qr_code.rs: Matrix.  data and mask are functions on 0..24 x 0..24,     *)
(* written m.data[row][col] as in the code.                                *)

Index == 0..(Size - 1)

\* Matrix::new()
NewMatrix ==
    [data |-> [r \in Index |-> [c \in Index |-> 0]],
     mask |-> [r \in Index |-> [c \in Index |-> FALSE]]]

\* the grid with v written to every cell of cells
SetCells(grid, cells, v) ==
    [r \in Index |-> [c \in Index |->
        IF <<r, c>> \in cells THEN v ELSE grid[r][c]]]

\* place_finder_pattern: point_1, point_2, point_3
FinderPoints == {<<0, 0>>, <<18, 0>>, <<0, 18>>}

\* the modules the five loops of "Apply pattern" set to 1 at one point
FinderModules(point) ==
    {<<point[1] + 0, point[2] + k>> : k \in 0..6}
    \cup {<<point[1] + k, point[2] + 0>> : k \in 0..6}
    \cup {<<point[1] + 6, point[2] + k>> : k \in 0..6}
    \cup {<<point[1] + k, point[2] + 6>> : k \in 0..6}
    \cup {<<point[1] + 2 + k, point[2] + 2 + i>> : k \in 0..2, i \in 0..2}

\* the three 8 x 8 areas blocked for data bits
FinderReserved ==
    {<<0 + k, 0 + i>> : k \in 0..7, i \in 0..7}
    \cup {<<18 - 1 + k, 0 + i>> : k \in 0..7, i \in 0..7}
    \cup {<<0 + k, 18 - 1 + i>> : k \in 0..7, i \in 0..7}

\* place_finder_pattern(&mut self)
place_finder_pattern(m) ==
    [data |-> SetCells(m.data,
                       UNION {FinderModules(point) : point \in FinderPoints}, 1),
     mask |-> SetCells(m.mask, FinderReserved, TRUE)]

\* the modules place_alignment_pattern sets to 1, around Point(18, 18)
AlignmentModules ==
    {<<18, 18>>}
    \cup {<<18 - 2 + 0, 18 - 2 + k>> : k \in 0..4}
    \cup {<<18 - 2 + k, 18 - 2 + 0>> : k \in 0..4}
    \cup {<<18 + 2 + 0, 18 - 2 + k>> : k \in 0..4}
    \cup {<<18 - 2 + k, 18 + 2 + 0>> : k \in 0..4}

AlignmentReserved == {<<18 - 2 + k, 18 - 2 + i>> : k \in 0..4, i \in 0..4}

\* place_alignment_pattern(&mut self)
place_alignment_pattern(m) ==
    [data |-> SetCells(m.data, AlignmentModules, 1),
     mask |-> SetCells(m.mask, AlignmentReserved, TRUE)]

\* place_dark_module(&mut self): Point(17, 8)
place_dark_module(m) ==
    [data |-> SetCells(m.data, {<<17, 8>>}, 1),
     mask |-> SetCells(m.mask, {<<17, 8>>}, TRUE)]

\* place_timing_pattern with the dark modules at the odd places
place_timing_pattern_odd(m) ==
    [data |-> SetCells(m.data,
                 {<<6, 8 + k>> : k \in {j \in 0..8 : j % 2 = 1}}
                 \cup {<<8 + k, 6>> : k \in {j \in 0..8 : j % 2 = 1}}, 1),
     mask |-> SetCells(m.mask,
                 {<<6, 8 + k>> : k \in 0..8} \cup {<<8 + k, 6>> : k \in 0..8},
                 TRUE)]

\* place_timing_pattern(&mut self)
place_timing_pattern(m) ==
    [data |-> SetCells(m.data,
                 {<<6, 8 + k>> : k \in {j \in 0..8 : j % 2 = 0}}
                 \cup {<<8 + k, 6>> : k \in {j \in 0..8 : j % 2 = 0}}, 1),
     mask |-> SetCells(m.mask,
                 {<<6, 8 + k>> : k \in 0..8} \cup {<<8 + k, 6>> : k \in 0..8},
                 TRUE)]

\* reserve_format_area(&mut self)
reserve_format_area(m) ==
    [data |-> m.data,
     mask |-> SetCells(m.mask,
                 UNION {{<<8, k>>, <<k, 8>>} :
                          k \in {j \in 0..24 : j <= 8 \/ j >= 17}},
                 TRUE)]

---------------------------------------------------------------------------
(* qr_code.rs: Matrix::fill_data.  The state of the walk is a record      *)
(* [data, row, col, index, panic, written]: panic is set when an index    *)
(* leaves its range (data_bits[352], or col - 1 and col - 2 below 0), and *)
(* written lists the cells written, in order.                              *)

\* WriteCell without the test of the reservation
WriteCellUnmasked(s, mask, dbits, row, col) ==
    IF s.panic THEN s
    ELSE IF col < 0 THEN [s EXCEPT !.panic = TRUE]
    ELSE IF s.index \notin DOMAIN dbits THEN [s EXCEPT !.panic = TRUE]
    ELSE [s EXCEPT !.data[row][col] = dbits[s.index],
                   !.index = @ + 1,
                   !.written = Append(@, <<row, col>>)]

\* if !self.mask[row][col] { self.data[row][col] = data_bits[index]; index += 1 }
WriteCell(s, mask, dbits, row, col) ==
    IF s.panic THEN s
    ELSE IF col < 0 THEN [s EXCEPT !.panic = TRUE]
    ELSE IF mask[row][col] THEN s
    ELSE IF s.index \notin DOMAIN dbits THEN [s EXCEPT !.panic = TRUE]
    ELSE [s EXCEPT !.data[row][col] = dbits[s.index],
                   !.index = @ + 1,
                   !.written = Append(@, <<row, col>>)]

\* the first inner loop: go upward, alternately filling two columns
RECURSIVE UpLoop(_, _, _)
UpLoop(s, mask, dbits) ==
    LET s1 == WriteCell(s, mask, dbits, s.row, s.col)
    IN  IF s1.panic \/ s1.index = EccLen THEN s1
        ELSE LET s2 == WriteCell(s1, mask, dbits, s1.row, s1.col - 1)
             IN  IF s2.panic \/ s2.index = EccLen THEN s2
                 ELSE IF s2.row = 0 THEN s2
                 ELSE UpLoop([s2 EXCEPT !.row = @ - 1], mask, dbits)

\* the second inner loop: go downward, alternately filling two columns
RECURSIVE DownLoop(_, _, _)
DownLoop(s, mask, dbits) ==
    LET s1 == WriteCell(s, mask, dbits, s.row, s.col)
    IN  IF s1.panic \/ s1.index = EccLen THEN s1
        ELSE LET s2 == WriteCell(s1, mask, dbits, s1.row, s1.col - 1)
             IN  IF s2.panic \/ s2.index = EccLen THEN s2
                 ELSE IF s2.row = 24 THEN s2
                 ELSE DownLoop([s2 EXCEPT !.row = @ + 1], mask, dbits)

\* MoveOverAfterUp without the step over the vertical timing pattern
MoveOverAfterUpNoSkip(s) ==
    IF s.panic THEN s
    ELSE IF s.col < 2 THEN [s EXCEPT !.panic = TRUE]
    ELSE [s EXCEPT !.col = @ - 2]

\* col -= 2; if col == 6 { col -= 1 }   (after the upward loop)
MoveOverAfterUp(s) ==
    IF s.panic THEN s
    ELSE IF s.col < 2 THEN [s EXCEPT !.panic = TRUE]
    ELSE [s EXCEPT !.col = IF @ - 2 = 6 THEN @ - 3 ELSE @ - 2]

\* if col > 1 { col -= 2 }; if col == 6 { col -= 1 }   (after the downward loop)
MoveOverAfterDown(s) ==
    IF s.panic THEN s
    ELSE LET c1 == IF s.col > 1 THEN s.col - 2 ELSE s.col
         IN  [s EXCEPT !.col = IF c1 = 6 THEN c1 - 1 ELSE c1]

\* while index < data_bits.len() { up; move over; down; move over }
RECURSIVE FillLoop(_, _, _)
FillLoop(s, mask, dbits) ==
    IF s.panic \/ ~(s.index < EccLen) THEN s
    ELSE LET up == MoveOverAfterUp(UpLoop(s, mask, dbits))
         IN  IF up.panic THEN up
             ELSE FillLoop(MoveOverAfterDown(DownLoop(up, mask, dbits)),
                           mask, dbits)

\* fill_data(&mut self, data_bits): the state of the walk when it ends
fill_data(m, dbits) ==
    FillLoop([data |-> m.data, row |-> 24, col |-> 24, index |-> 0,
              panic |-> FALSE, written |-> <<>>],
             m.mask, dbits)

---------------------------------------------------------------------------
(* qr_code.rs: Matrix::transform, flip_bit, evaluate                       *)

\* the closure transform chooses for mask_no
MaskPattern(mask_no, row, col) ==
    CASE mask_no = 0 -> (row + col) % 2
      [] mask_no = 1 -> row % 2
      [] mask_no = 2 -> col % 3
      [] mask_no = 3 -> (row + col) % 3
      [] mask_no = 4 -> ((row \div 2) + (col \div 3)) % 2
      [] mask_no = 5 -> ((row * col) % 2) + ((row * col) % 3)
      [] mask_no = 6 -> (((row * col) % 2) + ((row * col) % 3)) % 2
      [] OTHER       -> (((row + col) % 2) + ((row * col) % 3)) % 2

\* flip_bit(&mut self, row, col): the value of the module afterwards
flip_bit(m, row, col) ==
    IF m.mask[row][col] = TRUE THEN m.data[row][col]
    ELSE IF m.data[row][col] = 1 THEN 0 ELSE 1

\* the body of transform's loops for one module: its value afterwards
TransformCell(m, mask_no, row, col) ==
    IF m.mask[row][col] THEN m.data[row][col]
    ELSE IF MaskPattern(mask_no, row, col) = 0 THEN flip_bit(m, row, col)
    ELSE m.data[row][col]

\* transform(&mut self, mask_no): every module is visited once
transform(m, mask_no) ==
    [data |-> [row \in Index |-> [col \in Index |->
                  TransformCell(m, mask_no, row, col)]],
     mask |-> m.mask]

\* pattern == [0; 5] || pattern == [1; 5] for the five modules from
\* (row, col) on, in steps of (dr, dc)
SameFive(data, row, col, dr, dc) ==
    /\ data[row + dr][col + dc] = data[row][col]
    /\ data[row + 2 * dr][col + 2 * dc] = data[row][col]
    /\ data[row + 3 * dr][col + 3 * dc] = data[row][col]
    /\ data[row + 4 * dr][col + 4 * dc] = data[row][col]

\* Rule 1 in rows.  The windows are scanned for row in 0..25, col in 0..21;
\* window number w is (w \div 21, w % 21).  continuous is never reset in
\* between, so when window w is tested it tells whether window w - 1
\* matched: a matching window scores 3 if it did not, and 1 if it did.
RowWindowMatches(data, w) ==
    w >= 0 /\ SameFive(data, w \div 21, w % 21, 0, 1)

Rule1Rows(data) ==
    LET matching == {w \in 0..(25 * 21 - 1) : RowWindowMatches(data, w)}
        following == {w \in matching : (w - 1) \in matching}
    IN  3 * (Cardinality(matching) - Cardinality(following))
        + Cardinality(following)

\* Rule 1 in columns.  continuous is reset to false once, then the windows
\* are scanned for row in 0..21, col in 0..25; window number w is the
\* vertical window from (w \div 25, w % 25) on.
ColumnWindowMatches(data, w) ==
    w >= 0 /\ SameFive(data, w \div 25, w % 25, 1, 0)

Rule1Columns(data) ==
    LET matching == {w \in 0..(21 * 25 - 1) : ColumnWindowMatches(data, w)}
        following == {w \in matching : (w - 1) \in matching}
    IN  3 * (Cardinality(matching) - Cardinality(following))
        + Cardinality(following)

\* Rule 2: for row in 0..23, for col in 0..23, the 2x2 square is one colour
Rule2(data) ==
    3 * Cardinality(
          {rc \in (0..22) \X (0..22) :
              /\ data[rc[1] + 1][rc[2]] = data[rc[1]][rc[2]]
              /\ data[rc[1]][rc[2] + 1] = data[rc[1]][rc[2]]
              /\ data[rc[1] + 1][rc[2] + 1] = data[rc[1]][rc[2]]})

search_ptn_1 == <<0, 0, 0, 0, 1, 0, 1, 1, 1, 0, 1>>
search_ptn_2 == <<1, 0, 1, 1, 1, 0, 1, 0, 0, 0, 0>>

\* the eleven modules from (row, col) on, in steps of (dr, dc)
Eleven(data, row, col, dr, dc) ==
    [k \in 1..11 |-> data[row + (k - 1) * dr][col + (k - 1) * dc]]

FinderLike(pattern) == pattern = search_ptn_1 \/ pattern = search_ptn_2

\* Rule 3 in rows (row in 0..25, col in 0..15) and columns (row in 0..15,
\* col in 0..25)
Rule3(data) ==
    40 * Cardinality({rc \in (0..24) \X (0..14) :
                        FinderLike(Eleven(data, rc[1], rc[2], 0, 1))})
    + 40 * Cardinality({rc \in (0..14) \X (0..24) :
                        FinderLike(Eleven(data, rc[1], rc[2], 1, 0))})

\* count_dark
CountDark(data) ==
    Cardinality({rc \in Index \X Index : data[rc[1]][rc[2]] = 1})

\* while upper_multiple < percentage_dark { upper_multiple += 5 }
RECURSIVE UpperMultiple(_, _)
UpperMultiple(upper_multiple, percentage_dark) ==
    IF upper_multiple < percentage_dark
    THEN UpperMultiple(upper_multiple + 5, percentage_dark)
    ELSE upper_multiple

Abs(x) == IF x < 0 THEN -x ELSE x

\* Rule 4 for a count of dark modules
Rule4(count_dark) ==
    LET percentage_dark == (count_dark * 100) \div (25 * 25)
        upper_multiple  == UpperMultiple(0, percentage_dark)
        lower_multiple  == upper_multiple - 5
        a == lower_multiple - 50
        b == upper_multiple - 50
    IN  IF Abs(a) <= Abs(b) THEN Abs(a) * 2 ELSE Abs(b) * 2

\* evaluate(&self) -> usize
evaluate(m) ==
    Rule1Rows(m.data) + Rule1Columns(m.data) + Rule2(m.data) + Rule3(m.data)
    + Rule4(CountDark(m.data))

\* LowestScore with <= for <: the last of equal scores is kept
LowestScoreLast(lowest, k, new_score) ==
    IF new_score <= lowest[2] THEN <<k, new_score>> ELSE lowest

\* the body of the loop of mask_and_place_format_string: the lowest score
\* after copy k, which scores new_score
LowestScore(lowest, k, new_score) ==
    IF new_score < lowest[2] THEN <<k, new_score>> ELSE lowest

---------------------------------------------------------------------------
(* qr_code.rs: Matrix::place_format_string                                 *)

\* u16::leading_zeros
RECURSIVE BitLength(_)
BitLength(x) == IF x = 0 THEN 0 ELSE 1 + BitLength(x \div 2)

leading_zeros(x) == 16 - BitLength(x)

\* what the model returns for a loop that never ends
Diverges == -1

\* while gen_poly.leading_zeros() != format_string.leading_zeros()
\*     { gen_poly = gen_poly >> 1 }
\* (once gen_poly is 0 it stays 0, and the loop never ends)
RECURSIVE AlignGenerator(_, _)
AlignGenerator(gp, format_string) ==
    IF leading_zeros(gp) # leading_zeros(format_string)
    THEN IF gp = 0 THEN Diverges
         ELSE AlignGenerator(gp \div 2, format_string)
    ELSE gp

\* FormatDivision stopping one bit early, at leading_zeros() < 5
RECURSIVE FormatDivisionShort(_, _)
FormatDivisionShort(format_string, gp) ==
    IF leading_zeros(format_string) < 5
    THEN LET g == AlignGenerator(gp, format_string)
         IN  IF g = Diverges THEN Diverges
             ELSE FormatDivisionShort(Xor(format_string, g), g)
    ELSE format_string

\* while format_string.leading_zeros() < 6 { align; format_string ^= gen_poly }
RECURSIVE FormatDivision(_, _)
FormatDivision(format_string, gp) ==
    IF leading_zeros(format_string) < 6
    THEN LET g == AlignGenerator(gp, format_string)
         IN  IF g = Diverges THEN Diverges
             ELSE FormatDivision(Xor(format_string, g), g)
    ELSE format_string

\* the format string place_format_string computes: the division, the
\* five data bits added back, the xor_mask
FormatString(mask_no) ==
    LET data_bits_5 == ((8 + mask_no) * 1024) % 65536
        ec_bits     == FormatDivision(data_bits_5, (1335 * 8) % 65536)
    IN  IF ec_bits = Diverges THEN Diverges
        ELSE Xor(Xor(ec_bits, data_bits_5), 21522)

\* let mut bits: [u8; 15], bits[n] the bit of format_string under
\* mask = 0b0100_0000_0000_0000 >> n
FormatBits(format_string) == [k \in 0..14 |-> Bit(format_string, 14 - k)]

\* PlaceFormatStep without the step over the timing pattern
PlaceFormatStepNoSkip(data, fbits, k) ==
    LET d1 == [data EXCEPT ![8][k] = fbits[k], ![k][8] = fbits[14 - k]]
        d2 == IF k < 7 THEN [d1 EXCEPT ![24 - k][8] = fbits[k]] ELSE d1
    IN  [d2 EXCEPT ![8][24 - k] = fbits[14 - k]]

\* PlaceFormatStep with the copy in row 8 one module further left, so that
\* it ends on (8, 16)
PlaceFormatStepShifted(data, fbits, k) ==
    LET d1 == IF k < 6
              THEN [data EXCEPT ![8][k] = fbits[k], ![k][8] = fbits[14 - k]]
              ELSE [data EXCEPT ![8][k + 1] = fbits[k],
                                ![1 + k][8] = fbits[14 - k]]
        d2 == IF k < 7 THEN [d1 EXCEPT ![24 - k][8] = fbits[k]] ELSE d1
    IN  [d2 EXCEPT ![8][23 - k] = fbits[14 - k]]

\* the body of "for n in 0..8", for n = k
PlaceFormatStep(data, fbits, k) ==
    LET d1 == IF k < 6
              THEN [data EXCEPT ![8][k] = fbits[k], ![k][8] = fbits[14 - k]]
              ELSE [data EXCEPT ![8][k + 1] = fbits[k],
                                ![1 + k][8] = fbits[14 - k]]
        d2 == IF k < 7 THEN [d1 EXCEPT ![24 - k][8] = fbits[k]] ELSE d1
    IN  [d2 EXCEPT ![8][24 - k] = fbits[14 - k]]

\* for n in 0..8, from n = k on
RECURSIVE PlaceFormatLoop(_, _, _)
PlaceFormatLoop(data, fbits, k) ==
    IF k = 8 \/ data = Panicked THEN data
    ELSE PlaceFormatLoop(PlaceFormatStep(data, fbits, k), fbits, k + 1)

\* place_format_string(&mut self, mask_no)
place_format_string(m, mask_no) ==
    [data |-> PlaceFormatLoop(m.data, FormatBits(FormatString(mask_no)), 0),
     mask |-> m.mask]

---------------------------------------------------------------------------
(* qr_code.rs: Matrix::export                                              *)

\* the index range of the grid export returns
ExportIndex == 0..32

\* export without the shift by four modules
export_unshifted(m) ==
    [row \in ExportIndex |-> [col \in ExportIndex |->
        IF row \in Index /\ col \in Index THEN m.data[row][col] ELSE 0]]

\* export(&self): qr_final starts as [[0; 33]; 33] and
\* qr_final[row + 4][col + 4] = self.data[row][col] for row, col in 0..25
export(m) ==
    [row \in ExportIndex |-> [col \in ExportIndex |->
        IF (row - 4) \in Index /\ (col - 4) \in Index
        THEN m.data[row - 4][col - 4]
        ELSE 0]]

---------------------------------------------------------------------------
(* lib.rs: calculate_crc.  A u32 is a pair <<hi, lo>> of its two 16-bit     *)
(* halves, because the integers of the model are 32-bit and signed.         *)

\* the k low bits of x in the opposite order
RECURSIVE Reverse(_, _)
Reverse(x, k) ==
    IF k = 0 THEN 0
    ELSE (x % 2) * Shl1(k - 1) + Reverse(x \div 2, k - 1)

\* reflect_byte(byte): invert the order of the bits in a byte
reflect_byte(byte) == Reverse(byte, 8)

\* next_bit(byte, n): the bit at position n
next_bit(byte, k) == Bit(byte, k)

\* mirror_crc(crc): invert the order of the bits in a u32
mirror_crc(u) == <<Reverse(u[2], 16), Reverse(u[1], 16)>>

\* !crc
Not32(u) == <<65535 - u[1], 65535 - u[2]>>

\* gen_poly = 0b00000100110000010001110110110111
crc_gen_poly == <<1217, 7607>>

\* what calculate_crc does on fewer than four bytes: data[3] is out of range
CrcPanicked == <<-1, -1>>

\* one round of the loops over m: crc << 1, crc += bit, and crc ^ gen_poly
\* when the bit shifted out was 1
CrcShift(u, bit) ==
    LET hi == ((2 * u[1]) % 65536) + (u[2] \div 32768)
        lo == ((2 * u[2]) % 65536) + bit
    IN  IF u[1] >= 32768
        THEN <<Xor(hi, crc_gen_poly[1]), Xor(lo, crc_gen_poly[2])>>
        ELSE <<hi, lo>>

\* "for m in 0..8" with a data byte, from m = k on
RECURSIVE CrcByte(_, _, _)
CrcByte(u, byte, k) ==
    IF k = 8 THEN u
    ELSE CrcByte(CrcShift(u, next_bit(byte, k)), byte, k + 1)

\* "for _m in 0..8" after the data is used up, from k on
RECURSIVE CrcFlush(_, _)
CrcFlush(u, k) ==
    IF k = 8 THEN u ELSE CrcFlush(CrcShift(u, 0), k + 1)

\* the rounds from..(to - 1) of "for n in 4..data.len() + 4", in their
\* order; the range is halved until it is one round
RECURSIVE CrcRounds(_, _, _, _)
CrcRounds(data, from, to, u) ==
    IF u = CrcPanicked \/ from >= to THEN u
    ELSE IF to = from + 1
    THEN IF from < Len(data) THEN CrcByte(u, data[from + 1], 0)
         ELSE CrcFlush(u, 0)
    ELSE LET mid == (from + to) \div 2
         IN  CrcRounds(data, mid, to, CrcRounds(data, from, mid, u))

\* CrcStart without the inversion of the first 32 bits
CrcStartPlain(data) ==
    <<reflect_byte(data[1]) * 256 + reflect_byte(data[2]),
      reflect_byte(data[3]) * 256 + reflect_byte(data[4])>>

\* the first 32 bits, reflected byte by byte, then inverted
CrcStart(data) ==
    Not32(<<reflect_byte(data[1]) * 256 + reflect_byte(data[2]),
            reflect_byte(data[3]) * 256 + reflect_byte(data[4])>>)

\* calculate_crc(data: &[u8]) -> u32
calculate_crc(data) ==
    IF Len(data) < 4 THEN CrcPanicked
    ELSE Not32(mirror_crc(CrcRounds(data, 4, Len(data) + 4, CrcStart(data))))

\* the four pushes (crc >> 24) as u8, ..., (crc & 0xFF) as u8
BigEndian(u) == <<u[1] \div 256, u[1] % 256, u[2] \div 256, u[2] % 256>>

---------------------------------------------------------------------------
(* lib.rs: form_png and its chunks.  Vec<u8> values are sequences.         *)

\* calculate_adler32's loop over data[from + 1..to], in its order, on
\* s = <<s1, s2>>; the range is halved until it is one byte
RECURSIVE AdlerRounds(_, _, _, _)
AdlerRounds(data, from, to, s) ==
    IF s = <<>> \/ from >= to THEN s
    ELSE IF to = from + 1
    THEN LET s1 == (s[1] + data[to]) % 65521
         IN  <<s1, (s[2] + s1) % 65521>>
    ELSE LET mid == (from + to) \div 2
         IN  AdlerRounds(data, mid, to, AdlerRounds(data, from, mid, s))

\* calculate_adler32(data) -> u32: s2 << 16 ^ s1
calculate_adler32(data) ==
    LET s == AdlerRounds(data, 0, Len(data), <<1, 0>>)
    IN  <<s[2], s[1]>>

\* deflate(data): one stored block
deflate(data) ==
    LET length == Len(data) % 65536
    IN  <<120, 1, 1,
          length % 256, length \div 256,
          255 - (length % 256), 255 - (length \div 256)>>
        \o data
        \o BigEndian(calculate_adler32(data))

\* png_signature()
png_signature == <<137, 80, 78, 71, 13, 10, 26, 10>>

\* the vec! of png_ihdr before the CRC is pushed
IhdrStart ==
    <<0, 0, 0, 13, 73, 72, 68, 82, 0, 0, 1, 8, 0, 0, 1, 8, 1, 0, 0, 0, 0>>

\* png_ihdr(): the CRC excludes the length field
png_ihdr ==
    IhdrStart \o BigEndian(calculate_crc(SubSeq(IhdrStart, 5, Len(IhdrStart))))

\* idat[0..4]: the length of the data field, a u32
LengthField(len) ==
    <<len \div 16777216, (len \div 65536) % 256, (len \div 256) % 256,
      len % 256>>

\* png_idat(image)
png_idat(image) ==
    LET image_compressed == deflate(image)
        typed == <<73, 68, 65, 84>> \o image_compressed
    IN  LengthField(Len(image_compressed)) \o typed
        \o BigEndian(calculate_crc(typed))

\* png_iend(): the CRC is hard-coded
png_iend == <<0, 0, 0, 0, 73, 69, 78, 68, 174, 66, 96, 130>>

\* Scanline without the inversion of the colour
ScanlineUninverted(row) ==
    <<0>> \o [i \in 1..33 |-> IF row[i - 1] = 1 THEN 255 ELSE 0]

\* temp = row.iter().map(|x| if *x == 1 { 0 } else { 255 }), after the
\* filter type byte
Scanline(row) ==
    <<0>> \o [i \in 1..33 |-> IF row[i - 1] = 1 THEN 0 ELSE 255]

\* "for row in qr_matrix", from row k on: eight scanlines for every row
RECURSIVE ImageSerial(_, _)
ImageSerial(qr_matrix, k) ==
    IF k \notin DOMAIN qr_matrix THEN <<>>
    ELSE LET line == Scanline(qr_matrix[k])
         IN  line \o line \o line \o line \o line \o line \o line \o line
             \o ImageSerial(qr_matrix, k + 1)

\* form_png(qr_matrix)
form_png(qr_matrix) ==
    png_signature \o png_ihdr \o png_idat(ImageSerial(qr_matrix, 0))
    \o png_iend

---------------------------------------------------------------------------
(* Inputs of the encoder                                                   *)

HeadBytes == {1, 44, 45, 128, 233, 255}
FillBytes == {0, 170, 255}

\* len bytes: z zero bytes, one byte h, then bytes f
BytePattern(len, z, h, f) ==
    [i \in 1..len |-> IF i <= z THEN 0 ELSE IF i = z + 1 THEN h ELSE f]

EncodeInputs ==
    { BytePattern(len, z, h, f) :
        len \in 1..MaxPasswordBytes, z \in 0..MaxLeadZeros,
        h \in HeadBytes, f \in FillBytes }

(* Inputs of the framer: symbol sequences of every length 0..47           *)

SymbolValues == {0, 1, 22, 44}

\* the longest symbol sequence encode_bits returns for 32 bytes
MaxSymbols == (MaxPasswordBytes * 16 + 10) \div 11

\* len symbols, a at the odd places and b at the even ones
SymbolPattern(len, a, b) == [i \in 1..len |-> IF i % 2 = 1 THEN a ELSE b]

FrameInputs ==
    { SymbolPattern(len, a, b) :
        len \in 0..MaxSymbols, a \in SymbolValues, b \in SymbolValues }

(* Inputs of the Reed-Solomon stage: 272-bit buffers                      *)

OddBytes == {1, 29, 128, 255}
RestBytes == {0, 236}

\* the 34 bytes that are w everywhere but v at place p, as 272 bits
BufferPattern(p, v, w) ==
    [i \in 0..(DataLen - 1) |->
        Bit(IF i \div 8 = p THEN v ELSE w, 7 - (i % 8))]

EccInputs ==
    { BufferPattern(p, v, w) : p \in 0..33, v \in OddBytes, w \in RestBytes }

---------------------------------------------------------------------------
(* Inputs of the matrix stage: 352-bit buffers                            *)

\* the bit patterns repeat with a period of up to MaxPeriod
MaxPeriod == 5

\* 352 bits: in every run of period bits, the first ones are 1
BitPattern(period, ones) ==
    [i \in 0..(EccLen - 1) |-> IF (i % period) < ones THEN 1 ELSE 0]

\* two buffers for which two masks share the lowest score
TiedInputs == {BitPattern(11, 8), BitPattern(13, 12)}

FillInputs ==
    { BitPattern(period, ones) : period \in 1..MaxPeriod, ones \in 0..MaxPeriod }
    \cup TiedInputs

(* Inputs of main: the bytes read_bits returns                             *)

PasswordLengths == {0, 1, 11, 22, 32}

Passwords ==
    { BytePattern(len, 0, h, f) :
        len \in PasswordLengths, h \in {0, 255}, f \in {170, 255} }

---------------------------------------------------------------------------
(* Actions: the calls of main, in its order.  mask_and_place_format_string *)
(* is followed through its loop: BeginMasking, eight MaskStep, ChooseMask, *)
(* PlaceFormatString.                                                      *)

\* main.rs:45  let encoded_bits = qr_code::encode_bits(bits, 45);
EncodeBits ==
    /\ pc = "read"
    /\ encoded_bits' = encode_bits(bits, Base45)
    /\ pc' = "encoded"
    /\ UNCHANGED <<bits, data_bits, data_ecc, matrix, written, all_masks,
                   lowest_score, n>>
    /\ UNCHANGED png_vars

\* main.rs:48  let data_bits = qr_code::encapsulate_data(encoded_bits);
EncapsulateData ==
    /\ pc = "encoded"
    /\ data_bits' = encapsulate_data(encoded_bits)
    /\ pc' = IF data_bits' = Panicked THEN "panicked" ELSE "framed"
    /\ UNCHANGED <<bits, encoded_bits, data_ecc, matrix, written, all_masks,
                   lowest_score, n>>
    /\ UNCHANGED png_vars

\* main.rs:51  let data_ecc = qr_code::apply_ecc(data_bits);
ApplyEcc ==
    /\ pc = "framed"
    /\ data_ecc' = apply_ecc(data_bits)
    /\ pc' = "ecc"
    /\ UNCHANGED <<bits, encoded_bits, data_bits, matrix, written, all_masks,
                   lowest_score, n>>
    /\ UNCHANGED png_vars

\* main.rs:54  let mut matrix = qr_code::Matrix::new();
MatrixNew ==
    /\ pc = "ecc"
    /\ matrix' = NewMatrix
    /\ pc' = "new"
    /\ UNCHANGED <<bits, encoded_bits, data_bits, data_ecc, written,
                   all_masks, lowest_score, n>>
    /\ UNCHANGED png_vars

\* main.rs:57  matrix.place_finder_pattern();
PlaceFinderPattern ==
    /\ pc = "new"
    /\ matrix' = place_finder_pattern(matrix)
    /\ pc' = "finder"
    /\ UNCHANGED <<bits, encoded_bits, data_bits, data_ecc, written,
                   all_masks, lowest_score, n>>
    /\ UNCHANGED png_vars

\* main.rs:58  matrix.place_alignment_pattern();
PlaceAlignmentPattern ==
    /\ pc = "finder"
    /\ matrix' = place_alignment_pattern(matrix)
    /\ pc' = "alignment"
    /\ UNCHANGED <<bits, encoded_bits, data_bits, data_ecc, written,
                   all_masks, lowest_score, n>>
    /\ UNCHANGED png_vars

\* main.rs:59  matrix.place_dark_module();
PlaceDarkModule ==
    /\ pc = "alignment"
    /\ matrix' = place_dark_module(matrix)
    /\ pc' = "dark"
    /\ UNCHANGED <<bits, encoded_bits, data_bits, data_ecc, written,
                   all_masks, lowest_score, n>>
    /\ UNCHANGED png_vars

\* main.rs:60  matrix.place_timing_pattern();
PlaceTimingPattern ==
    /\ pc = "dark"
    /\ matrix' = place_timing_pattern(matrix)
    /\ pc' = "timing"
    /\ UNCHANGED <<bits, encoded_bits, data_bits, data_ecc, written,
                   all_masks, lowest_score, n>>
    /\ UNCHANGED png_vars

\* main.rs:61  matrix.reserve_format_area();
ReserveFormatArea ==
    /\ pc = "timing"
    /\ matrix' = reserve_format_area(matrix)
    /\ pc' = "reserved"
    /\ UNCHANGED <<bits, encoded_bits, data_bits, data_ecc, written,
                   all_masks, lowest_score, n>>
    /\ UNCHANGED png_vars

\* main.rs:62  matrix.fill_data(data_ecc);
FillData ==
    /\ pc = "reserved"
    /\ LET s == fill_data(matrix, data_ecc)
       IN  /\ matrix' = [matrix EXCEPT !.data = s.data]
           /\ written' = s.written
           /\ pc' = IF s.panic THEN "panicked" ELSE "filled"
    /\ UNCHANGED <<bits, encoded_bits, data_bits, data_ecc, all_masks,
                   lowest_score, n>>
    /\ UNCHANGED png_vars

\* main.rs:63, qr_code.rs:527-528  let mut all_masks = [self.clone(); 8];
\* let mut lowest_score = (0, usize::MAX);
BeginMasking ==
    /\ pc = "filled"
    /\ all_masks' = [k \in 0..7 |-> matrix]
    /\ lowest_score' = <<0, UsizeMax>>
    /\ n' = 0
    /\ pc' = "masking"
    /\ UNCHANGED <<bits, encoded_bits, data_bits, data_ecc, matrix, written>>
    /\ UNCHANGED png_vars

\* qr_code.rs:530-536  one round of "for n in 0..8"
MaskStep ==
    /\ pc = "masking"
    /\ n < 8
    /\ all_masks' = [all_masks EXCEPT ![n] = transform(@, n)]
    /\ lowest_score' = LowestScore(lowest_score, n, evaluate(all_masks'[n]))
    /\ n' = n + 1
    /\ UNCHANGED <<pc, bits, encoded_bits, data_bits, data_ecc, matrix,
                   written>>
    /\ UNCHANGED png_vars

\* qr_code.rs:538  self.data = all_masks[lowest_score.0].data;
ChooseMask ==
    /\ pc = "masking"
    /\ n = 8
    /\ matrix' = [matrix EXCEPT !.data = all_masks[lowest_score[1]].data]
    /\ pc' = "chosen"
    /\ UNCHANGED <<bits, encoded_bits, data_bits, data_ecc, written,
                   all_masks, lowest_score, n>>
    /\ UNCHANGED png_vars

\* qr_code.rs:539  self.place_format_string(lowest_score.0);
PlaceFormatString ==
    /\ pc = "chosen"
    /\ matrix' = place_format_string(matrix, lowest_score[1])
    /\ pc' = "formatted"
    /\ UNCHANGED <<bits, encoded_bits, data_bits, data_ecc, written,
                   all_masks, lowest_score, n>>
    /\ UNCHANGED png_vars

\* main.rs:67  let qr_final = matrix.export();
Export ==
    /\ pc = "formatted"
    /\ qr_final' = export(matrix)
    /\ pc' = "exported"
    /\ UNCHANGED <<bits, encoded_bits, data_bits, data_ecc, matrix, written,
                   all_masks, lowest_score, n, png_image, crc_data, crc,
                   score>>

\* main.rs:70-72  let png = form_png(qr_final); the bytes are then written to
\* ./qr_code.png
FormPng ==
    /\ pc = "exported"
    /\ png_image' = form_png(qr_final)
    /\ pc' = "png"
    /\ UNCHANGED <<bits, encoded_bits, data_bits, data_ecc, matrix, written,
                   all_masks, lowest_score, n, qr_final, crc_data, crc,
                   score>>

\* lib.rs:108, 140  crc = calculate_crc(...), on its own
CalculateCrc ==
    /\ pc = "crc_call"
    /\ crc' = calculate_crc(crc_data)
    /\ pc' = IF crc' = CrcPanicked THEN "panicked" ELSE "crc_done"
    /\ UNCHANGED <<bits, encoded_bits, data_bits, data_ecc, matrix, written,
                   all_masks, lowest_score, n, qr_final, png_image, crc_data,
                   score>>

\* qr_code.rs:585-630  let mut score = 0; rule 1 in rows and columns
EvaluateRule1 ==
    /\ pc = "evaluate_call"
    /\ score' = Rule1Rows(matrix.data) + Rule1Columns(matrix.data)
    /\ pc' = "rule1"
    /\ UNCHANGED <<bits, encoded_bits, data_bits, data_ecc, matrix, written,
                   all_masks, lowest_score, n, qr_final, png_image, crc_data,
                   crc>>

\* qr_code.rs:632-646  rule 2
EvaluateRule2 ==
    /\ pc = "rule1"
    /\ score' = score + Rule2(matrix.data)
    /\ pc' = "rule2"
    /\ UNCHANGED <<bits, encoded_bits, data_bits, data_ecc, matrix, written,
                   all_masks, lowest_score, n, qr_final, png_image, crc_data,
                   crc>>

\* qr_code.rs:648-677  rule 3
EvaluateRule3 ==
    /\ pc = "rule2"
    /\ score' = score + Rule3(matrix.data)
    /\ pc' = "rule3"
    /\ UNCHANGED <<bits, encoded_bits, data_bits, data_ecc, matrix, written,
                   all_masks, lowest_score, n, qr_final, png_image, crc_data,
                   crc>>

\* qr_code.rs:679-712  rule 4, and the score is returned
EvaluateRule4 ==
    /\ pc = "rule3"
    /\ score' = score + Rule4(CountDark(matrix.data))
    /\ pc' = "evaluated"
    /\ UNCHANGED <<bits, encoded_bits, data_bits, data_ecc, matrix, written,
                   all_masks, lowest_score, n, qr_final, png_image, crc_data,
                   crc>>

---------------------------------------------------------------------------
(* Specifications                                                          *)

\* the value of a variable that holds nothing yet
NoMatrix == [data |-> <<>>, mask |-> <<>>]

\* main, from the bytes read_bits returned
Init ==
    /\ pc = "read"
    /\ bits \in Passwords
    /\ encoded_bits = <<>>
    /\ data_bits = <<>>
    /\ data_ecc = <<>>
    /\ matrix = NoMatrix
    /\ written = <<>>
    /\ all_masks = <<>>
    /\ lowest_score = <<0, UsizeMax>>
    /\ n = 0
    /\ qr_final = <<>>
    /\ png_image = <<>>
    /\ crc_data = <<>>
    /\ crc = <<>>
    /\ score = 0

Next ==
    \/ EncodeBits
    \/ EncapsulateData
    \/ ApplyEcc
    \/ MatrixNew
    \/ PlaceFinderPattern
    \/ PlaceAlignmentPattern
    \/ PlaceDarkModule
    \/ PlaceTimingPattern
    \/ ReserveFormatArea
    \/ FillData
    \/ BeginMasking
    \/ MaskStep
    \/ ChooseMask
    \/ PlaceFormatString
    \/ Export
    \/ FormPng

Spec == Init /\ [][Next]_vars

\* encode_bits alone, on the inputs of the encoder
InitEncode ==
    /\ pc = "read"
    /\ bits \in EncodeInputs
    /\ encoded_bits = <<>>
    /\ data_bits = <<>>
    /\ data_ecc = <<>>
    /\ matrix = NoMatrix
    /\ written = <<>>
    /\ all_masks = <<>>
    /\ lowest_score = <<0, UsizeMax>>
    /\ n = 0
    /\ qr_final = <<>>
    /\ png_image = <<>>
    /\ crc_data = <<>>
    /\ crc = <<>>
    /\ score = 0

NextEncode == EncodeBits

SpecEncode == InitEncode /\ [][NextEncode]_vars

\* encapsulate_data alone, on symbol sequences of every length
InitFrame ==
    /\ pc = "encoded"
    /\ bits = <<>>
    /\ encoded_bits \in FrameInputs
    /\ data_bits = <<>>
    /\ data_ecc = <<>>
    /\ matrix = NoMatrix
    /\ written = <<>>
    /\ all_masks = <<>>
    /\ lowest_score = <<0, UsizeMax>>
    /\ n = 0
    /\ qr_final = <<>>
    /\ png_image = <<>>
    /\ crc_data = <<>>
    /\ crc = <<>>
    /\ score = 0

NextFrame == EncapsulateData

SpecFrame == InitFrame /\ [][NextFrame]_vars

\* apply_ecc alone, on 272-bit buffers
InitEcc ==
    /\ pc = "framed"
    /\ bits = <<>>
    /\ encoded_bits = <<>>
    /\ data_bits \in EccInputs
    /\ data_ecc = <<>>
    /\ matrix = NoMatrix
    /\ written = <<>>
    /\ all_masks = <<>>
    /\ lowest_score = <<0, UsizeMax>>
    /\ n = 0
    /\ qr_final = <<>>
    /\ png_image = <<>>
    /\ crc_data = <<>>
    /\ crc = <<>>
    /\ score = 0

NextEcc == ApplyEcc

SpecEcc == InitEcc /\ [][NextEcc]_vars

\* the matrix stage of main, on 352-bit buffers
InitMatrix ==
    /\ pc = "ecc"
    /\ bits = <<>>
    /\ encoded_bits = <<>>
    /\ data_bits = <<>>
    /\ data_ecc \in FillInputs
    /\ matrix = NoMatrix
    /\ written = <<>>
    /\ all_masks = <<>>
    /\ lowest_score = <<0, UsizeMax>>
    /\ n = 0
    /\ qr_final = <<>>
    /\ png_image = <<>>
    /\ crc_data = <<>>
    /\ crc = <<>>
    /\ score = 0

NextMatrix ==
    \/ MatrixNew
    \/ PlaceFinderPattern
    \/ PlaceAlignmentPattern
    \/ PlaceDarkModule
    \/ PlaceTimingPattern
    \/ ReserveFormatArea
    \/ FillData
    \/ BeginMasking
    \/ MaskStep
    \/ ChooseMask
    \/ PlaceFormatString

SpecMatrix == InitMatrix /\ [][NextMatrix]_vars

\* the matrix main has placed its patterns in, before fill_data
Placed ==
    reserve_format_area(place_timing_pattern(place_dark_module(
        place_alignment_pattern(place_finder_pattern(NewMatrix)))))

\* the matrix after fill_data(dbits)
Filled(dbits) == [Placed EXCEPT !.data = fill_data(Placed, dbits).data]

\* inputs of export and evaluate: 25 x 25 matrices

\* the module patterns repeat along rows and columns with strides and a
\* modulus of up to MaxStride
MaxStride == 4

\* the matrix whose module (row, col) is dark when ra * row + ca * col + off
\* is a multiple of modulus, with the reservation bitmap of main
StridePattern(ra, ca, off, modulus) ==
    [data |-> [row \in Index |-> [col \in Index |->
                  IF (ra * row + ca * col + off) % modulus = 0 THEN 1 ELSE 0]],
     mask |-> Placed.mask]

MatrixInputs ==
    { StridePattern(ra, ca, off, modulus) :
        ra \in 0..MaxStride, ca \in 0..MaxStride, off \in 0..1,
        modulus \in 2..(MaxStride + 3) }

\* place_format_string alone, called with every mask index on the masked
\* copies of filled matrices
InitFormat ==
    \E dbits \in FillInputs, mask_no \in 0..7 :
        /\ pc = "chosen"
        /\ bits = <<>>
        /\ encoded_bits = <<>>
        /\ data_bits = <<>>
        /\ data_ecc = dbits
        /\ all_masks = [k \in 0..7 |-> transform(Filled(dbits), k)]
        /\ matrix = all_masks[mask_no]
        /\ written = fill_data(Placed, dbits).written
        /\ lowest_score = <<mask_no, evaluate(all_masks[mask_no])>>
        /\ n = 8
        /\ qr_final = <<>>
        /\ png_image = <<>>
        /\ crc_data = <<>>
        /\ crc = <<>>
        /\ score = 0

NextFormat == PlaceFormatString

SpecFormat == InitFormat /\ [][NextFormat]_vars

\* export alone, on 25 x 25 matrices
InitExport ==
    /\ pc = "formatted"
    /\ bits = <<>>
    /\ encoded_bits = <<>>
    /\ data_bits = <<>>
    /\ data_ecc = <<>>
    /\ matrix \in MatrixInputs
    /\ written = <<>>
    /\ all_masks = <<>>
    /\ lowest_score = <<0, UsizeMax>>
    /\ n = 8
    /\ qr_final = <<>>
    /\ png_image = <<>>
    /\ crc_data = <<>>
    /\ crc = <<>>
    /\ score = 0

NextExport == Export

SpecExport == InitExport /\ [][NextExport]_vars

\* inputs of form_png: 33 x 33 grids of modules, also with dark modules in
\* the border; the patterns are shifted by up to MaxOffset
MaxOffset == 3

GridStrides == {0, 1, 2}

GridModuli == {5, 7}

\* the grid whose module (row, col) is dark when ra * row + ca * col + off is
\* a multiple of modulus
GridPattern(ra, ca, off, modulus) ==
    [row \in ExportIndex |-> [col \in ExportIndex |->
        IF (ra * row + ca * col + off) % modulus = 0 THEN 1 ELSE 0]]

GridInputs ==
    { GridPattern(ra, ca, off, modulus) :
        ra \in GridStrides, ca \in GridStrides, off \in 0..MaxOffset,
        modulus \in GridModuli }
    \cup { export(StridePattern(1, 2, 0, 3)) }

\* form_png alone, on 33 x 33 grids
InitPng ==
    /\ pc = "exported"
    /\ bits = <<>>
    /\ encoded_bits = <<>>
    /\ data_bits = <<>>
    /\ data_ecc = <<>>
    /\ matrix = NoMatrix
    /\ written = <<>>
    /\ all_masks = <<>>
    /\ lowest_score = <<0, UsizeMax>>
    /\ n = 8
    /\ qr_final \in GridInputs
    /\ png_image = <<>>
    /\ crc_data = <<>>
    /\ crc = <<>>
    /\ score = 0

NextPng == FormPng

SpecPng == InitPng /\ [][NextPng]_vars

\* inputs of calculate_crc: byte sequences of 4..MaxCrcLen bytes
MaxCrcLen == 12

CrcSteps == {0, 1, 37, 255}

CrcFirst == {0, 1, 128, 255}

\* len bytes that start at first and grow by step, modulo 256
CrcPattern(len, first, step) ==
    [i \in 1..len |-> (first + (i - 1) * step) % 256]

CrcInputs ==
    { CrcPattern(len, first, step) :
        len \in 4..MaxCrcLen, first \in CrcFirst, step \in CrcSteps }
    \cup { <<73, 69, 78, 68>> }

\* the grids whose chunks are followed to their CRC fields
ChunkGrids == { GridPattern(1, 2, 0, 5), export(StridePattern(1, 2, 0, 3)) }

\* calculate_crc alone on byte sequences, and in the chunks of form_png
InitCrc ==
    /\ bits = <<>>
    /\ encoded_bits = <<>>
    /\ data_bits = <<>>
    /\ data_ecc = <<>>
    /\ matrix = NoMatrix
    /\ written = <<>>
    /\ all_masks = <<>>
    /\ lowest_score = <<0, UsizeMax>>
    /\ n = 8
    /\ png_image = <<>>
    /\ crc = <<>>
    /\ score = 0
    /\ \/ pc = "crc_call" /\ crc_data \in CrcInputs /\ qr_final = <<>>
       \/ pc = "exported" /\ crc_data = <<>> /\ qr_final \in ChunkGrids

NextCrc ==
    \/ CalculateCrc
    \/ FormPng

SpecCrc == InitCrc /\ [][NextCrc]_vars

\* the matrix whose first d modules, row by row, are dark
DarkMatrix(d) ==
    [data |-> [row \in Index |-> [col \in Index |->
                  IF Size * row + col < d THEN 1 ELSE 0]],
     mask |-> NewMatrix.mask]

\* inputs of evaluate: the stride patterns, a matrix with each count of
\* dark modules, and filled matrices of main
EvaluateInputs ==
    MatrixInputs \cup { DarkMatrix(d) : d \in 0..(Size * Size) }
                 \cup { Filled(dbits) : dbits \in FillInputs }

\* evaluate alone, rule after rule
InitEvaluate ==
    /\ pc = "evaluate_call"
    /\ bits = <<>>
    /\ encoded_bits = <<>>
    /\ data_bits = <<>>
    /\ data_ecc = <<>>
    /\ matrix \in EvaluateInputs
    /\ written = <<>>
    /\ all_masks = <<>>
    /\ lowest_score = <<0, UsizeMax>>
    /\ n = 0
    /\ qr_final = <<>>
    /\ png_image = <<>>
    /\ crc_data = <<>>
    /\ crc = <<>>
    /\ score = 0

NextEvaluate ==
    \/ EvaluateRule1
    \/ EvaluateRule2
    \/ EvaluateRule3
    \/ EvaluateRule4

SpecEvaluate == InitEvaluate /\ [][NextEvaluate]_vars

\* the matrices place_format_string is called on: the masked copies of the
\* stride patterns and of filled matrices of main
FormatInputs == MatrixInputs \cup { Filled(dbits) : dbits \in FillInputs }

\* place_format_string alone, with every mask index on every such matrix
InitPlace ==
    \E base \in FormatInputs, mask_no \in 0..7 :
        /\ pc = "chosen"
        /\ bits = <<>>
        /\ encoded_bits = <<>>
        /\ data_bits = <<>>
        /\ data_ecc = <<>>
        /\ all_masks = [k \in 0..7 |-> transform(base, k)]
        /\ matrix = all_masks[mask_no]
        /\ written = <<>>
        /\ lowest_score = <<mask_no, evaluate(all_masks[mask_no])>>
        /\ n = 8
        /\ qr_final = <<>>
        /\ png_image = <<>>
        /\ crc_data = <<>>
        /\ crc = <<>>
        /\ score = 0

NextPlace == PlaceFormatString

SpecPlace == InitPlace /\ [][NextPlace]_vars

---------------------------------------------------------------------------
(* Claims about encode_bits (SpecEncode)                                   *)

\* ceil(16 * len / 11)
ExpectedLength(len) == (16 * len + 10) \div 11

\* C1 as stated: for every input of 1..32 bytes, encode_bits returns exactly
\* ceil(16 n / 11) symbols.
C1_ExactLength ==
    pc = "encoded" => Len(encoded_bits) = ExpectedLength(Len(bits))

\* C1 amended: encode_bits returns at least ceil(16 n / 11) symbols and at
\* most one more; it returns one more only for n = 11 and n = 22, and then
\* the extra leading symbol is a significant (nonzero) digit.
C1_Length ==
    pc = "encoded" =>
        \/ Len(encoded_bits) = ExpectedLength(Len(bits))
        \/ /\ Len(encoded_bits) = ExpectedLength(Len(bits)) + 1
           /\ Len(bits) \in {11, 22}
           /\ encoded_bits[1] # 0

C1_Witness ==
    /\ pc = "encoded"
    /\ Len(bits) = 22
    /\ bits[1] = 0
    /\ Len(encoded_bits) = 32

C1_WitnessLong ==
    /\ pc = "encoded"
    /\ Len(bits) = 11
    /\ Len(encoded_bits) = 17

\* acc * m + a on a big-endian byte sequence of fixed length, from byte i
\* (the least significant first) with the carry so far
RECURSIVE MulAdd(_, _, _, _)
MulAdd(acc, m, carry, i) ==
    IF i = 0 \/ acc = <<>> THEN acc
    ELSE LET t == acc[i] * m + carry
         IN  MulAdd([acc EXCEPT ![i] = t % 256], m, t \div 256, i - 1)

\* the value of the base-45 digits S[k..], most significant first, added to
\* acc: a big-endian base-256 number of Len(acc) bytes
RECURSIVE ToBase256(_, _, _)
ToBase256(S, k, acc) ==
    IF k > Len(S) \/ acc = <<>> THEN acc
    ELSE ToBase256(S, k + 1, MulAdd(acc, 45, S[k], Len(acc)))

\* C2: every symbol is in 0..44, and the symbols read as a base-45 number,
\* converted back to base 256 and left-padded with zero bytes, are the input
\* bytes; [0xFF] gives [5,30] and [0x00,0x01] gives [0,0,1].
C2_RoundTrip ==
    pc = "encoded" =>
        /\ \A i \in 1..Len(encoded_bits) : encoded_bits[i] \in 0..44
        /\ Len(encoded_bits) >= Len(bits)
        /\ ToBase256(encoded_bits, 1, Repeat(0, Len(encoded_bits)))
             = Repeat(0, Len(encoded_bits) - Len(bits)) \o bits
        /\ (bits = <<255>> => encoded_bits = <<5, 30>>)
        /\ (bits = <<0, 1>> => encoded_bits = <<0, 0, 1>>)

C2_Witness ==
    /\ pc = "encoded"
    /\ bits = <<0, 1>>
    /\ encoded_bits = <<0, 0, 1>>

---------------------------------------------------------------------------
(* Claims about encapsulate_data (SpecFrame)                               *)

\* C3: the framed buffer has exactly 272 entries, each 0 or 1; entries 0..3
\* are 0,0,1,0; entries 4..12 are the character count in 9 bits, most
\* significant first; from entry 13 on each pair (a,b) is a*45+b in 11 bits
\* and a trailing single symbol is 6 bits, most significant first.
C3_Frame ==
    pc = "framed" =>
        LET L == Len(encoded_bits)
        IN  /\ DOMAIN data_bits = 0..271
            /\ \A i \in 0..271 : data_bits[i] \in {0, 1}
            /\ <<data_bits[0], data_bits[1], data_bits[2], data_bits[3]>>
                 = <<0, 0, 1, 0>>
            /\ \A j \in 0..8 : data_bits[4 + j] = Bit(L, 8 - j)
            /\ \A p \in 0..((L \div 2) - 1) : \A j \in 0..10 :
                 data_bits[13 + 11 * p + j]
                   = Bit(encoded_bits[2 * p + 1] * 45 + encoded_bits[2 * p + 2],
                         10 - j)
            /\ L % 2 = 1 =>
                 \A j \in 0..5 :
                   data_bits[13 + 11 * (L \div 2) + j]
                     = Bit(encoded_bits[L], 5 - j)

C3_Witness ==
    /\ pc = "framed"
    /\ Len(encoded_bits) = 47
    /\ encoded_bits[46] = 44
    /\ encoded_bits[47] = 22
    /\ data_bits[266] = 0
    /\ data_bits[267] = 1

\* the byte of the buffer that starts at bit i, most significant bit first
ByteAt(buf, i) ==
    128 * buf[i] + 64 * buf[i + 1] + 32 * buf[i + 2] + 16 * buf[i + 3]
    + 8 * buf[i + 4] + 4 * buf[i + 5] + 2 * buf[i + 6] + buf[i + 7]

\* C4: after the payload, the terminator and the fill to a byte boundary,
\* every remaining byte is a pad byte, alternating 0xEC, 0x11, 0xEC, ...
C4_PadBytesAlternate ==
    pc = "framed" =>
        LET start == PadStart(Len(encoded_bits))
        IN  \A k \in 0..(((DataLen - start) \div 8) - 1) :
              ByteAt(data_bits, start + 8 * k)
                = IF k % 2 = 0 THEN 236 ELSE 17

---------------------------------------------------------------------------
(* Claims about apply_ecc (SpecEcc)                                        *)

\* multiplication by x in GF(256) modulo x^8 + x^4 + x^3 + x^2 + 1 (0x11D)
TimesX(a) == IF a >= 128 THEN Xor((2 * a) % 256, 29) ELSE 2 * a

\* the product of a and b in GF(256), by shift and add
RECURSIVE FieldProduct(_, _)
FieldProduct(a, b) ==
    IF b = 0 THEN 0
    ELSE Xor(IF b % 2 = 1 THEN a ELSE 0, FieldProduct(TimesX(a), b \div 2))

\* long division of the polynomial c (44 coefficients, highest first) by the
\* monic generator: the leading coefficient at place i is cancelled
RECURSIVE PolynomialRemainder(_, _)
PolynomialRemainder(c, i) ==
    IF i = 34 THEN c
    ELSE LET lead == c[i]
         IN  PolynomialRemainder(
                 [j \in 0..43 |->
                     IF j >= i /\ j <= i + 10
                     THEN Xor(c[j], FieldProduct(gen_poly[j - i], lead))
                     ELSE c[j]],
                 i + 1)

\* the 44 bytes of the 352 bits, most significant bit first
Codeword == [i \in 0..43 |-> ByteAt(data_ecc, 8 * i)]

\* C5: apply_ecc returns 352 bits, the first 272 of them the input, whose 44
\* bytes are a multiple of the generator polynomial over GF(256).
C5_Codeword ==
    pc = "ecc" =>
        /\ DOMAIN data_ecc = 0..351
        /\ \A i \in 0..351 : data_ecc[i] \in {0, 1}
        /\ \A i \in 0..271 : data_ecc[i] = data_bits[i]
        /\ PolynomialRemainder(Codeword, 0) = [j \in 0..43 |-> 0]

C5_Witness ==
    /\ pc = "ecc"
    /\ \E i \in 0..271 : data_bits[i] = 1
    /\ \E i \in 272..351 : data_ecc[i] = 1

---------------------------------------------------------------------------
(* Claims about fill_data and transform (SpecMatrix)                       *)

\* the modules the reservation bitmap of m protects
ReservedCells(m) == {rc \in Index \X Index : m.mask[rc[1]][rc[2]]}

\* the modules at which the grids d and e differ
ChangedCells(d, e) == {rc \in Index \X Index : d[rc[1]][rc[2]] # e[rc[1]][rc[2]]}

\* C6: on the matrix main has placed its patterns in, fill_data leaves the
\* value of every reserved module unchanged and writes only unreserved
\* modules, and transform(n) leaves every reserved module unchanged for every
\* mask n in 0..7: only unreserved modules are written or flipped.
C6_ReservedUnchanged ==
    [][ /\ pc = "reserved" =>
              /\ ChangedCells(matrix.data, matrix'.data)
                     \cap ReservedCells(matrix) = {}
              /\ \A i \in 1..Len(written') :
                     written'[i] \notin ReservedCells(matrix)
              /\ matrix'.mask = matrix.mask
        /\ (pc = "masking" /\ n < 8) =>
              /\ ChangedCells(all_masks[n].data, all_masks'[n].data)
                     \cap ReservedCells(all_masks[n]) = {}
              /\ all_masks'[n].mask = all_masks[n].mask
      ]_vars

C6_Witness ==
    /\ pc = "masking"
    /\ n = 8
    /\ Len(written) = EccLen
    /\ \E rc \in ReservedCells(matrix) : matrix.data[rc[1]][rc[2]] = 1
    /\ \A k \in 0..7 : ChangedCells(matrix.data, all_masks[k].data) # {}

---------------------------------------------------------------------------
(* Claims about the function patterns of the final matrix (Spec)           *)

\* the distance of (row, col) from (cr, cc) in rings around it
Ring(row, col, cr, cc) ==
    LET dr == IF row >= cr THEN row - cr ELSE cr - row
        dc == IF col >= cc THEN col - cc ELSE cc - col
    IN  IF dr >= dc THEN dr ELSE dc

\* the centres of the three finder patterns
FinderCentres == {<<3, 3>>, <<21, 3>>, <<3, 21>>}

\* C7: in the final matrix the three finders have a dark outer ring, a light
\* inner ring, a dark 3x3 centre and a light separator; the alignment pattern
\* centred at (18,18) has a dark outer ring, a light inner ring and a dark
\* centre; the timing patterns in row 6 and column 6, places 8..16, are 1 at
\* the even places and 0 at the odd ones; the dark module (17,8) is 1.
C7_FunctionPatterns ==
    pc = "formatted" =>
        /\ \A ctr \in FinderCentres : \A row \in Index, col \in Index :
              LET d == Ring(row, col, ctr[1], ctr[2])
              IN  d <= 4 =>
                    matrix.data[row][col] = IF d \in {0, 1, 3} THEN 1 ELSE 0
        /\ \A row \in Index, col \in Index :
              LET d == Ring(row, col, 18, 18)
              IN  d <= 2 =>
                    matrix.data[row][col] = IF d \in {0, 2} THEN 1 ELSE 0
        /\ \A k \in 8..16 :
              /\ matrix.data[6][k] = IF k % 2 = 0 THEN 1 ELSE 0
              /\ matrix.data[k][6] = IF k % 2 = 0 THEN 1 ELSE 0
        /\ matrix.data[17][8] = 1

C7_Witness ==
    /\ pc = "formatted"
    /\ Len(bits) = MaxPasswordBytes
    /\ lowest_score[1] # 0
    /\ matrix.data[17][8] = 1
    /\ matrix.data[6][8] = 1

---------------------------------------------------------------------------
(* Claims about mask_and_place_format_string (SpecMatrix)                  *)

\* the scores of the eight copies
Scores == [k \in 0..7 |-> evaluate(all_masks[k])]

\* the module (row, col) of the filled matrix m under mask k
Masked(m, k, row, col) ==
    IF ~m.mask[row][col] /\ MaskPattern(k, row, col) = 0
    THEN 1 - m.data[row][col]
    ELSE m.data[row][col]

\* the mask index the second to fourth format bits in row 8 stand for
PlacedMaskNo ==
    Xor(4 * matrix.data[8][2] + 2 * matrix.data[8][3] + matrix.data[8][4], 5)

\* C8: each of the 8 masks is applied to its own copy of the filled matrix;
\* the matrix data afterwards is the copy of the index m whose score is
\* minimal over the 8 copies, the lowest index winning ties; the same m is
\* passed to place_format_string; the reservation bitmap is unchanged.
C8_LowestMask ==
    LET filled == Filled(data_ecc)
        m      == lowest_score[1]
    IN  /\ (pc = "masking" /\ n = 8) =>
              \A k \in 0..7 :
                /\ all_masks[k].mask = filled.mask
                /\ \A row \in Index, col \in Index :
                      all_masks[k].data[row][col] = Masked(filled, k, row, col)
        /\ pc \in {"chosen", "formatted"} =>
              /\ m \in 0..7
              /\ lowest_score[2] = Scores[m]
              /\ \A k \in 0..7 : Scores[m] <= Scores[k]
              /\ \A k \in 0..(m - 1) : Scores[m] < Scores[k]
              /\ matrix.mask = filled.mask
        /\ pc = "chosen" => matrix.data = all_masks[m].data
        /\ pc = "formatted" =>
              /\ PlacedMaskNo = m
              /\ ChangedCells(matrix.data, all_masks[m].data)
                     \subseteq ReservedCells(matrix)

C8_Witness ==
    /\ pc = "formatted"
    /\ lowest_score[1] = 0
    /\ Scores[6] = Scores[0]
    /\ PlacedMaskNo = 0

C8_WitnessOther ==
    /\ pc = "chosen"
    /\ lowest_score[1] = 4
    /\ matrix.data = all_masks[4].data

---------------------------------------------------------------------------
(* Claims about place_format_string (SpecFormat)                           *)

\* the product of the polynomials a and b over GF(2), by shift and add
RECURSIVE CarrylessProduct(_, _)
CarrylessProduct(a, b) ==
    IF b = 0 THEN 0
    ELSE Xor(IF b % 2 = 1 THEN a ELSE 0, CarrylessProduct(2 * a, b \div 2))

\* the multiples of g = 0b10100110111 below 2^15
GeneratorMultiples == {CarrylessProduct(1335, q) : q \in 0..31}

\* C9: for every mask index m in 0..7 the division loop ends, and the format
\* code is (((8 + m) << 10) | r) xor 0b101010000010010, with r < 2^10 the
\* remainder of (8 + m) << 10 divided by g over GF(2), so that
\* ((8 + m) << 10) | r is a multiple of g.
C9_FormatCode ==
    pc = "formatted" =>
        LET m    == lowest_score[1]
            code == FormatString(m)
        IN  /\ code # Diverges
            /\ code \in 0..32767
            /\ \E r \in 0..1023 :
                  /\ ((8 + m) * 1024) + r \in GeneratorMultiples
                  /\ code = Xor(((8 + m) * 1024) + r, 21522)

C9_Witness ==
    /\ pc = "formatted"
    /\ lowest_score[1] = 7
    /\ FormatString(7) = Xor(CarrylessProduct(1335, 12), 21522)

\* the bits the claims about the placement read: the format code of the mask
\* index passed to place_format_string, most significant bit first
PlacedBits == FormatBits(FormatString(lowest_score[1]))

\* where C10 puts bit k in the copy around the upper left finder
PrimaryCell(k) ==
    IF k <= 5 THEN <<8, k>>
    ELSE IF k = 6 THEN <<8, 7>>
    ELSE IF k = 7 THEN <<8, 8>>
    ELSE IF k = 8 THEN <<7, 8>>
    ELSE <<14 - k, 8>>

\* where C10 puts bit k in the copy next to the other two finders
SecondaryCell(k) ==
    IF k <= 5 THEN <<24 - k, 8>>
    ELSE IF k = 6 THEN <<18, 8>>
    ELSE IF k = 7 THEN <<8, 17>>
    ELSE IF k = 8 THEN <<8, 18>>
    ELSE <<8, k + 10>>

\* C10: after place_format_string(m) every bit of the format code is in both
\* copies: bits[k], k in 0..5, at (8,k) and (24-k,8); bits[6] at (8,7) and
\* (18,8); bits[7] at (8,8) and (8,17); bits[8] at (7,8) and (8,18); bits[k],
\* k in 9..14, at (14-k,8) and (8,k+10).  The primary copy is 15 distinct
\* cells; (8,8), written twice, holds bits[7].
C10_FormatPlacement ==
    pc = "formatted" =>
        /\ \A k \in 0..14 :
              /\ matrix.data[PrimaryCell(k)[1]][PrimaryCell(k)[2]]
                    = PlacedBits[k]
              /\ matrix.data[SecondaryCell(k)[1]][SecondaryCell(k)[2]]
                    = PlacedBits[k]
        /\ Cardinality({PrimaryCell(k) : k \in 0..14}) = 15
        /\ Cardinality({SecondaryCell(k) : k \in 0..14}) = 15
        /\ matrix.data[8][8] = PlacedBits[7]
        /\ ChangedCells(matrix.data, all_masks[lowest_score[1]].data)
              \subseteq {PrimaryCell(k) : k \in 0..14}
                        \cup {SecondaryCell(k) : k \in 0..14}

C10_Witness ==
    /\ pc = "formatted"
    /\ lowest_score[1] = 1
    /\ PlacedBits[6] = 0
    /\ matrix.data[8][7] = 0
    /\ matrix.data[18][8] = 0
    /\ matrix.data[8][6] = 1

---------------------------------------------------------------------------
(* Claims about export (SpecExport)                                        *)

\* the cells of the 4-wide border of the 33 x 33 grid
BorderCells ==
    {rc \in ExportIndex \X ExportIndex :
        rc[1] < 4 \/ rc[1] > 28 \/ rc[2] < 4 \/ rc[2] > 28}

\* C11: export returns a 33 x 33 grid in which every cell with row < 4,
\* row > 28, col < 4 or col > 28 is 0 and cell (r + 4, c + 4) equals
\* data[r][c] for all r, c in 0..24; export does not change the matrix.
C11_Export ==
    [][ pc = "formatted" =>
          /\ DOMAIN qr_final' = ExportIndex
          /\ \A row \in ExportIndex : DOMAIN qr_final'[row] = ExportIndex
          /\ \A rc \in BorderCells : qr_final'[rc[1]][rc[2]] = 0
          /\ \A r \in Index, c \in Index :
                qr_final'[r + 4][c + 4] = matrix.data[r][c]
          /\ matrix' = matrix
      ]_vars

C11_Witness ==
    /\ pc = "exported"
    /\ matrix.data[0][0] = 1
    /\ matrix.data[24][24] = 1
    /\ matrix.data[0][1] = 0
    /\ qr_final[4][4] = 1
    /\ qr_final[28][28] = 1
    /\ qr_final[4][5] = 0
    /\ qr_final[3][4] = 0

---------------------------------------------------------------------------
(* Claims about form_png (SpecPng)                                         *)

\* byte j (from 0) of the raw image: 8 scanlines for every grid row, each a
\* filter byte 0 and 33 bytes, 0x00 for a module 1 and 0xFF for a module 0
RawByte(grid, j) ==
    LET row == (j \div 34) \div 8
        pos == j % 34
    IN  IF pos = 0 THEN 0
        ELSE IF grid[row][pos - 1] = 1 THEN 0 ELSE 255

\* the sum S and the position-weighted sum W of the 34 bytes of a scanline
\* of grid row r, over the 33 modules from col on
RECURSIVE LineSums(_, _, _)
LineSums(grid, r, col) ==
    IF col = 33 THEN <<0, 0>>
    ELSE LET b    == IF grid[r][col] = 1 THEN 0 ELSE 255
             rest == LineSums(grid, r, col + 1)
         IN  <<b + rest[1], (33 - col) * b + rest[2]>>

\* Adler-32 by whole scanlines: a block of 34 bytes with sums S and W takes
\* (s1, s2) to (s1 + S, s2 + 34 * s1 + W), both modulo 65521
AddLine(s, sw) ==
    <<(s[1] + sw[1]) % 65521, (s[2] + 34 * s[1] + sw[2]) % 65521>>

\* the 8 scanlines of every grid row from r on
RECURSIVE AdlerByLines(_, _, _)
AdlerByLines(grid, r, s) ==
    IF s = <<>> \/ r = 33 THEN s
    ELSE LET sw == LineSums(grid, r, 0)
         IN  AdlerByLines(grid, r + 1,
                 AddLine(AddLine(AddLine(AddLine(AddLine(AddLine(AddLine(
                     AddLine(s, sw), sw), sw), sw), sw), sw), sw), sw))

\* C12: form_png emits signature, IHDR, IDAT, IEND in that order; the IDAT
\* data is 0x78 0x01 0x01, LEN = 8976 little-endian, NLEN its complement, the
\* 8976 raw bytes (each grid row as 8 scanlines of a filter byte 0 and 33
\* bytes, 0x00 for module 1 and 0xFF for module 0), then the Adler-32 of the
\* raw bytes big-endian; the IDAT length field is 8987.
C12_Png ==
    pc = "png" =>
        /\ Len(png_image) = 9044
        /\ SubSeq(png_image, 1, 8) = <<137, 80, 78, 71, 13, 10, 26, 10>>
        /\ SubSeq(png_image, 9, 16) = <<0, 0, 0, 13, 73, 72, 68, 82>>
        /\ SubSeq(png_image, 34, 37) = <<0, 0, 35, 27>>
        /\ 35 * 256 + 27 = 8987
        /\ SubSeq(png_image, 38, 41) = <<73, 68, 65, 84>>
        /\ SubSeq(png_image, 42, 44) = <<120, 1, 1>>
        /\ png_image[45] + 256 * png_image[46] = 8976
        /\ png_image[47] = 255 - png_image[45]
        /\ png_image[48] = 255 - png_image[46]
        /\ \A j \in 0..8975 : png_image[49 + j] = RawByte(qr_final, j)
        /\ LET s == AdlerByLines(qr_final, 0, <<1, 0>>)
           IN  SubSeq(png_image, 9025, 9028)
                 = <<s[2] \div 256, s[2] % 256, s[1] \div 256, s[1] % 256>>
        /\ SubSeq(png_image, 9033, 9040) = <<0, 0, 0, 0, 73, 69, 78, 68>>

C12_Witness ==
    /\ pc = "png"
    /\ qr_final[0][0] = 1
    /\ qr_final[0][1] = 0
    /\ png_image[49] = 0
    /\ png_image[50] = 0
    /\ png_image[51] = 255
    /\ png_image[9025] # 0

---------------------------------------------------------------------------
(* Claims about calculate_crc (SpecCrc)                                    *)

\* the reflected polynomial 0xEDB88320
ReflectedPoly == <<60856, 33568>>

\* one bit of the standard CRC-32: shift right, and xor the reflected
\* polynomial when the bit shifted out was 1
RECURSIVE StandardBits(_, _)
StandardBits(u, k) ==
    IF k = 8 THEN u
    ELSE LET hi == u[1] \div 2
             lo == (u[2] \div 2) + 32768 * (u[1] % 2)
         IN  StandardBits(IF u[2] % 2 = 1
                          THEN <<Xor(hi, ReflectedPoly[1]),
                                 Xor(lo, ReflectedPoly[2])>>
                          ELSE <<hi, lo>>,
                          k + 1)

\* the standard CRC-32 register after the bytes data[from + 1..to]
RECURSIVE StandardRounds(_, _, _, _)
StandardRounds(data, from, to, u) ==
    IF u = <<>> \/ from >= to THEN u
    ELSE IF to = from + 1
    THEN StandardBits(<<u[1], Xor(u[2], data[to])>>, 0)
    ELSE LET mid == (from + to) \div 2
         IN  StandardRounds(data, mid, to, StandardRounds(data, from, mid, u))

\* the PNG CRC-32: init 0xFFFFFFFF, final xor 0xFFFFFFFF
StandardCrc(data) ==
    LET u == StandardRounds(data, 0, Len(data), <<65535, 65535>>)
    IN  <<65535 - u[1], 65535 - u[2]>>

\* a u32 <<hi, lo>> stored big-endian
StoredCrc(u) == <<u[1] \div 256, u[1] % 256, u[2] \div 256, u[2] % 256>>

\* C13: for every byte sequence of at least 4 bytes calculate_crc returns
\* the standard PNG CRC-32; calculate_crc of "IEND" is the hard-coded
\* 0xAE426082; the CRC of each chunk covers type || data and is stored
\* big-endian.
C13_Crc ==
    /\ pc = "crc_done" =>
          /\ Len(crc_data) >= 4
          /\ crc = StandardCrc(crc_data)
          /\ (crc_data = <<73, 69, 78, 68>> =>
                StoredCrc(crc) = <<174, 66, 96, 130>>)
    /\ pc = "png" =>
          /\ SubSeq(png_image, 30, 33)
                = StoredCrc(StandardCrc(SubSeq(png_image, 13, 29)))
          /\ SubSeq(png_image, 9029, 9032)
                = StoredCrc(StandardCrc(SubSeq(png_image, 38, 9028)))
          /\ SubSeq(png_image, 9041, 9044)
                = StoredCrc(StandardCrc(SubSeq(png_image, 9037, 9040)))
          /\ SubSeq(png_image, 9041, 9044) = <<174, 66, 96, 130>>

C13_Witness ==
    /\ pc = "crc_done"
    /\ crc_data = <<73, 69, 78, 68>>
    /\ crc = <<44610, 24706>>

C13_WitnessChunks ==
    /\ pc = "png"
    /\ SubSeq(png_image, 13, 16) = <<73, 72, 68, 82>>
    /\ SubSeq(png_image, 30, 33) = <<139, 141, 87, 82>>

---------------------------------------------------------------------------
(* Claims about the walk of fill_data (SpecMatrix)                         *)

\* the right column of each column pair of the walk, in its order
PairColumns == <<24, 22, 20, 18, 16, 14, 12, 10, 8, 5, 3, 1>>

\* place i (from 1) of the zig-zag over all 600 cells of the 12 column
\* pairs: pairs 1, 3, 5, ... go up, the others down, right column first
WalkCell(i) ==
    LET pair == (i - 1) \div 50
        step == ((i - 1) % 50) \div 2
        side == (i - 1) % 2
    IN  <<IF pair % 2 = 0 THEN 24 - step ELSE step,
          PairColumns[pair + 1] - side>>

\* whether main left the cell unreserved
Unreserved(rc) == ~Placed.mask[rc[1]][rc[2]]

\* the unreserved cells in the order of the walk
UnreservedWalk == SelectSeq([i \in 1..600 |-> WalkCell(i)], Unreserved)

\* C14: after the five placement steps (266 reserved cells, 359 unreserved)
\* fill_data ends without an access out of range, walks the column pairs
\* (24,23) up, (22,21) down, ..., (8,7) up, (5,4) down, (3,2) up, (1,0) down,
\* never column 6, writes bit k to the k-th unreserved cell of the walk, each
\* cell at most once, and leaves exactly 7 unreserved cells unwritten, at 0.
C14_FillWalk ==
    /\ pc # "panicked"
    /\ pc = "filled" =>
          /\ Cardinality(ReservedCells(matrix)) = 266
          /\ Cardinality((Index \X Index) \ ReservedCells(matrix)) = 359
          /\ matrix.mask = Placed.mask
          /\ Len(UnreservedWalk) = 359
          /\ written = SubSeq(UnreservedWalk, 1, EccLen)
          /\ \A k \in 1..EccLen :
                matrix.data[written[k][1]][written[k][2]] = data_ecc[k - 1]
          /\ Cardinality({written[k] : k \in 1..EccLen}) = EccLen
          /\ \A k \in 1..EccLen : written[k][2] # 6
          /\ LET unwritten == ((Index \X Index) \ ReservedCells(matrix))
                                \ {written[k] : k \in 1..EccLen}
             IN  /\ Cardinality(unwritten) = 7
                 /\ \A rc \in unwritten : matrix.data[rc[1]][rc[2]] = 0

C14_Witness ==
    /\ pc = "filled"
    /\ Len(written) = EccLen
    /\ written[1] = <<24, 24>>
    /\ written[2] = <<24, 23>>
    /\ written[EccLen] = <<13, 1>>
    /\ data_ecc[351] = 1
    /\ matrix.data[13][1] = 1
    /\ matrix.data[13][0] = 0

---------------------------------------------------------------------------
(* Claims about evaluate (SpecEvaluate)                                    *)

\* row i (across) or column i (down) of a grid, as a line indexed from 0
Line(data, across, i) ==
    [k \in Index |-> IF across THEN data[i][k] ELSE data[k][i]]

\* the last module of the maximal run of line that holds module a
RECURSIVE RunEnd(_, _)
RunEnd(line, a) ==
    IF a = Size - 1 \/ line[a + 1] # line[a] THEN a ELSE RunEnd(line, a + 1)

\* 3 + (run_length - 5) for each maximal run of 5 or more that starts at
\* module a or later
RECURSIVE RunPenalty(_, _)
RunPenalty(line, a) ==
    IF a > Size - 1 THEN 0
    ELSE LET last == RunEnd(line, a)
             run_length == last - a + 1
         IN  (IF run_length >= 5 THEN 3 + (run_length - 5) ELSE 0)
             + RunPenalty(line, last + 1)

RECURSIVE LinesPenalty(_, _, _)
LinesPenalty(data, across, i) ==
    IF i > Size - 1 THEN 0
    ELSE RunPenalty(Line(data, across, i), 0)
         + LinesPenalty(data, across, i + 1)

\* C15: the rule-1 part of evaluate is the sum, over every row and every
\* column taken separately, of 3 + (run_length - 5) for each maximal run of 5
\* or more identical modules in that line.
C15_Rule1PerLine ==
    pc = "rule1" =>
        score = LinesPenalty(matrix.data, TRUE, 0)
                + LinesPenalty(matrix.data, FALSE, 0)

\* the 2x2 blocks of one colour among the 24 x 24 blocks with their
\* top-left corner at row 0..23, col 0..23
SameBlocks(data) ==
    {rc \in (0..(Size - 2)) \X (0..(Size - 2)) :
        /\ data[rc[1] + 1][rc[2]] = data[rc[1]][rc[2]]
        /\ data[rc[1]][rc[2] + 1] = data[rc[1]][rc[2]]
        /\ data[rc[1] + 1][rc[2] + 1] = data[rc[1]][rc[2]]}

\* the windows of 11 modules, 15 per row and 15 per column, that match one
\* of the two search patterns; a window is (across, line, start)
FinderWindows(data) ==
    {w \in BOOLEAN \X Index \X (0..(Size - 11)) :
        LET pattern == [k \in 1..11 |-> Line(data, w[1], w[2])[w[3] + k - 1]]
        IN  \/ pattern = <<0, 0, 0, 0, 1, 0, 1, 1, 1, 0, 1>>
            \/ pattern = <<1, 0, 1, 1, 1, 0, 1, 0, 0, 0, 0>>}

\* C16: the rule-2 part of evaluate adds 3 for each of the 24 x 24
\* overlapping 2x2 blocks of one colour, those touching row 24 or column 24
\* included, and the rule-3 part adds 40 for each of the 15 windows of 11 per
\* row and per column that equals one of the two search patterns.
C16_Rule2Rule3 ==
    [][ /\ pc = "rule1" =>
              score' - score = 3 * Cardinality(SameBlocks(matrix.data))
        /\ pc = "rule2" =>
              score' - score = 40 * Cardinality(FinderWindows(matrix.data))
      ]_vars

\* 2 * min(|lo|, |hi|) with p = floor(d * 100 / 625), lo = 5 * floor(p / 5)
\* - 50 and hi = lo + 5
RatioPenalty(d) ==
    LET p  == (d * 100) \div 625
        lo == 5 * (p \div 5) - 50
        hi == lo + 5
    IN  2 * (IF Abs(lo) <= Abs(hi) THEN Abs(lo) ELSE Abs(hi))

\* C17: for every count d of dark modules in 0..625 the rule-4 part of
\* evaluate is 2 * min(|lo|, |hi|), also when p is a multiple of 5.
C17_Rule4 ==
    [][ pc = "rule3" =>
            score' - score = RatioPenalty(CountDark(matrix.data)) ]_vars

---------------------------------------------------------------------------
(* Claims about the cells place_format_string writes (SpecPlace)           *)

\* the cells reserve_format_area reserves
FormatArea ==
    {rc \in Index \X Index : reserve_format_area(NewMatrix).mask[rc[1]][rc[2]]}

\* C18: for every mask index and every matrix, place_format_string writes
\* only cells that reserve_format_area reserved and leaves every other cell
\* unchanged: no unreserved data cell, in particular not (8,16), and neither
\* the timing cells (6,8) and (8,6) nor the dark module (17,8).
C18_FormatFrame ==
    [][ pc = "chosen" =>
          /\ matrix'.data # Panicked
          /\ matrix'.mask = matrix.mask
          /\ ChangedCells(matrix'.data, matrix.data) \subseteq FormatArea
          /\ \A rc \in (Index \X Index) \ ReservedCells(matrix) :
                matrix'.data[rc[1]][rc[2]] = matrix.data[rc[1]][rc[2]]
          /\ matrix'.data[8][16] = matrix.data[8][16]
          /\ matrix'.data[6][8] = matrix.data[6][8]
          /\ matrix'.data[8][6] = matrix.data[8][6]
          /\ matrix'.data[17][8] = matrix.data[17][8]
      ]_vars

C18_Witness ==
    /\ pc = "formatted"
    /\ <<8, 17>> \in ChangedCells(matrix.data, all_masks[lowest_score[1]].data)
    /\ matrix.data[8][17] = PlacedBits[7]
    /\ matrix.data[8][16] # PlacedBits[6]
    /\ matrix.data[8][16] = all_masks[lowest_score[1]].data[8][16]
    /\ matrix.data[6][8] = 0
    /\ matrix.data[8][6] # PlacedBits[6]
    /\ matrix.data[17][8] = 0

=============================================================================
